---- MODULE Spec2Model ----
(***************************************************************************)
(* ssh-proxy (src/index.js): a local HTTP/SOCKS proxy server whose every   *)
(* client connection is forwarded through one ssh2 Client.                 *)
(*                                                                         *)
(* The model follows Node's run-to-completion scheduling: one action is    *)
(* one event-loop callback together with the promise continuations         *)
(* (microtasks) it makes runnable.  The ssh2 Client, the sockets and the   *)
(* proxy-protocol engine are outside the repository; they appear as the    *)
(* events they deliver to the handlers index.js registers.                 *)
(***************************************************************************)
EXTENDS Naturals, FiniteSets

\* ---------------------------------------------------------------- bounds
MaxHandles == 2      \* restart() is capped once this many Clients were made after the first
MaxConns == 2        \* client connections the proxy server accepts
MaxKeepalive == 1    \* largest --keepalive value tried (time units)

Handles == 0..MaxHandles
Conns == 1..MaxConns

VARIABLES
  client,       \* ssh.client: the handle init() created last
  hstate,       \* per handle: "unused" | "new" | "connecting" | "ready" | "closed"
  connectCalls, \* number of client.connect(options) calls made so far
  main,         \* position of the startup script: "start" | "awaitReady" | "done"
  server,       \* proxy server: "idle" | "binding" | "listening" | "failed"
  running,      \* the node process is alive
  keepalive,    \* argv.keepalive
  sock,         \* per connection: "none" | "open" | "closed" | "timedout"
  idle,         \* per open connection: time units since the last traffic (0 once closed)
  pc,           \* per request: "idle" | "open1" | "awaitRestart" | "open2" | "ok" | "failed"
  openOn,       \* per request: handle its latest forwardOut was issued against
  waitOn,       \* per request: handle whose 'ready' its restart() awaits
  attempts,     \* per request: forwardOut calls made
  restarts,     \* per request: restart() calls made
  firstOn,      \* per request: state of the handle when the first forwardOut was issued
  firstRes,     \* per request: how the first forwardOut ended: "none" | "Pending" | "NotConnected" | "Other" | "Channel"
  err           \* per request: "none" | "NotConnected" | "Other" (error thrown to the caller)

sessionVars == <<client, hstate, connectCalls>>
procVars == <<main, server, running, keepalive>>
sockVars == <<sock, idle>>
reqVars == <<pc, openOn, waitOn, attempts, restarts, firstOn, firstRes, err>>
vars == <<client, hstate, connectCalls, main, server, running,
          keepalive, sock, idle, pc, openOn, waitOn, attempts, restarts,
          firstOn, firstRes, err>>

HandleStates == {"unused", "new", "connecting", "ready", "closed"}

TypeOK ==
  /\ client \in Handles
  /\ hstate \in [Handles -> HandleStates]
  /\ connectCalls \in 0..(MaxHandles + 1)
  /\ main \in {"start", "awaitReady", "done"}
  /\ server \in {"idle", "binding", "listening", "failed"}
  /\ running \in BOOLEAN
  /\ keepalive \in 0..MaxKeepalive
  /\ sock \in [Conns -> {"none", "open", "closed", "timedout"}]
  /\ idle \in [Conns -> 0..MaxKeepalive]
  /\ pc \in [Conns -> {"idle", "open1", "awaitRestart", "open2", "ok", "failed"}]
  /\ openOn \in [Conns -> Handles]
  /\ waitOn \in [Conns -> Handles]
  /\ attempts \in [Conns -> 0..2]
  /\ restarts \in [Conns -> 0..2]
  /\ firstOn \in [Conns -> HandleStates]
  /\ firstRes \in [Conns -> {"none", "Pending", "NotConnected", "Other", "Channel"}]
  /\ err \in [Conns -> {"none", "NotConnected", "Other"}]

\* `const ssh = new SSHClient()` has run init(): one fresh Client, nothing
\* connected, the server created but not listening.
Init ==
  /\ client = 0
  /\ hstate = [h \in Handles |-> IF h = 0 THEN "new" ELSE "unused"]
  /\ connectCalls = 0
  /\ main = "start"
  /\ server = "idle"
  /\ running = TRUE
  /\ keepalive \in 0..MaxKeepalive
  /\ sock = [c \in Conns |-> "none"]
  /\ idle = [c \in Conns |-> 0]
  /\ pc = [c \in Conns |-> "idle"]
  /\ openOn = [c \in Conns |-> 0]
  /\ waitOn = [c \in Conns |-> 0]
  /\ attempts = [c \in Conns |-> 0]
  /\ restarts = [c \in Conns |-> 0]
  /\ firstOn = [c \in Conns |-> "unused"]
  /\ firstRes = [c \in Conns |-> "none"]
  /\ err = [c \in Conns |-> "none"]

\* ------------------------------------------------------- SSHClient (pure)
\* destroy(): this.client.destroy(); synchronous, from any state, no error.
Destroy(hs, h) == [hs EXCEPT ![h] = "closed"]

\* init(): this.client = new Client(); forwardOut is re-bound to the new Client.
\* The new handle gets the next identity, so it differs from all earlier ones.
NewHandle(h) == h + 1
InitClient(hs, h) == [hs EXCEPT ![NewHandle(h)] = "new"]

\* connect(): this.client.connect(options); the promise it returns is settled
\* by `once('ready', resolve)` only.
ConnectClient(hs, h) == [hs EXCEPT ![h] = "connecting"]

\* RestartHandles that forgets destroy(): the old Client is left as it is.
RestartNoDestroy(hs, h) == ConnectClient(InitClient(hs, h), NewHandle(h))

\* restart(): destroy(), init(), connect(), with no check of what is in progress.
RestartHandles(hs, h) == ConnectClient(InitClient(Destroy(hs, h), h), NewHandle(h))

\* What a Client in state s answers to forwardOut.  "NotConnected" is the
\* synchronous `throw new Error('Not connected')` of a Client without a usable
\* socket; "Pending" is a channel-open that the transport settles later.  The
\* transport contract only makes forwardOut valid on a ready Client, so for a
\* Client that is still connecting both answers are allowed.
ForwardOutOutcomes(s) ==
  IF s \in {"new", "closed"} THEN {"NotConnected"}
  ELSE IF s = "connecting" THEN {"NotConnected", "Pending"}
  ELSE {"Pending"}

\* ShouldRestart without the test of the message: any error restarts.
ShouldRestartAny(e) == TRUE

\* catch (e) { if (e.message === 'Not connected') ... }
ShouldRestart(e) == e = "NotConnected"

\* ClientErrorHandled for a Client whose 'error' has no listener.
ClientErrorUnhandled(h) == FALSE

\* this.client.on('error', (e) => console.log(time(), e)): init() gives every
\* Client an 'error' listener, so an 'error' event is logged and not thrown.
ClientErrorHandled(h) == TRUE

\* TimeoutRegistered without the test of argv.keepalive.
TimeoutRegisteredAlways(k) == TRUE

\* if (argv.keepalive) server.on('connection', socket => socket.setTimeout(...))
TimeoutRegistered(k) == k # 0

\* ------------------------------------------------------------- startup
\* Startup that calls server.listen next to ssh.connect() instead of in its then().
StartupListens ==
  /\ running /\ main = "start"
  /\ hstate' = ConnectClient(hstate, client)
  /\ connectCalls' = connectCalls + 1
  /\ main' = "awaitReady"
  /\ server' = "binding"
  /\ UNCHANGED <<client, running, keepalive>>
  /\ UNCHANGED sockVars /\ UNCHANGED reqVars

\* ssh.connect() at the bottom of the script; the main flow then waits for 'ready'.
Startup ==
  /\ running /\ main = "start"
  /\ hstate' = ConnectClient(hstate, client)
  /\ connectCalls' = connectCalls + 1
  /\ main' = "awaitReady"
  /\ UNCHANGED <<client, server, running, keepalive>>
  /\ UNCHANGED sockVars /\ UNCHANGED reqVars

\* server.listen(port, hostname, cb) succeeded.
ListenOk ==
  /\ running /\ server = "binding"
  /\ server' = "listening"
  /\ UNCHANGED <<main, running, keepalive>>
  /\ UNCHANGED sessionVars /\ UNCHANGED sockVars /\ UNCHANGED reqVars

\* server 'error' (bind/listen failed): console.error(time(), error), nothing else.
ListenFail ==
  /\ running /\ server = "binding"
  /\ server' = "failed"
  /\ UNCHANGED <<main, running, keepalive>>
  /\ UNCHANGED sessionVars /\ UNCHANGED sockVars /\ UNCHANGED reqVars

\* Node leaves when nothing keeps the event loop alive: no server bound or
\* binding, no ssh socket, no client socket.  A pending promise keeps nothing alive.
LoopAlive ==
  \/ main = "start"
  \/ server \in {"binding", "listening"}
  \/ \E h \in Handles : hstate[h] \in {"connecting", "ready"}
  \/ \E c \in Conns : sock[c] = "open"

ProcessExit ==
  /\ running /\ ~LoopAlive
  /\ running' = FALSE
  /\ UNCHANGED <<main, server, keepalive>>
  /\ UNCHANGED sessionVars /\ UNCHANGED sockVars /\ UNCHANGED reqVars

\* ------------------------------------------------------ transport events
\* The requests whose `await ssh.restart()` listens for 'ready' on handle h.
\* Waiters that takes 'ready' of any Client for the one a request waits for.
WaitersAny(h) == {r \in Conns : pc[r] = "awaitRestart"}

Waiters(h) == {r \in Conns : pc[r] = "awaitRestart" /\ waitOn[r] = h}

\* RetryTarget that keeps the forwardOut bound to the Client of the first attempt.
RetryTargetStale(r) == openOn[r]

\* `ssh.forwardOut` is read again after `await ssh.restart()`: it is the function
\* init() bound to the Client that is current at that moment.
RetryTarget(r) == client

\* `return ssh.forwardOut(...)` after `await ssh.restart()`: issued against the
\* Client ssh.forwardOut is bound to at that moment; answer o.
RetryPc(o) == IF o = "Pending" THEN "open2" ELSE "failed"

\* Client 'ready' on handle h: logged when verbose, and every promise made by
\* connect() on h resolves: the startup flow calls server.listen, a request
\* suspended in restart() issues its second forwardOut.
ConnectReady(h) ==
  /\ running /\ hstate[h] = "connecting"
  /\ hstate' = [hstate EXCEPT ![h] = "ready"]
  /\ IF main = "awaitReady" /\ h = 0
       THEN main' = "done" /\ server' = "binding"
       ELSE UNCHANGED <<main, server>>
  /\ \E o \in [Conns -> {"NotConnected", "Pending"}] :
       /\ \A r \in Conns : o[r] \in ForwardOutOutcomes(hstate'[RetryTarget(r)])
       /\ pc' = [r \in Conns |-> IF r \in Waiters(h) THEN RetryPc(o[r]) ELSE pc[r]]
       /\ err' = [r \in Conns |-> IF r \in Waiters(h) /\ o[r] # "Pending" THEN o[r] ELSE err[r]]
  /\ openOn' = [r \in Conns |-> IF r \in Waiters(h) THEN RetryTarget(r) ELSE openOn[r]]
  /\ attempts' = [r \in Conns |-> IF r \in Waiters(h) THEN attempts[r] + 1 ELSE attempts[r]]
  /\ UNCHANGED <<client, connectCalls, running, keepalive,
                 waitOn, restarts, firstOn, firstRes>>
  /\ UNCHANGED sockVars

\* The connection attempt of handle h fails (refused, bad credentials, timeout):
\* Client 'error' is logged by the listener of init() (an 'error' without a
\* listener would be thrown and end the process).  No listener rejects the
\* promise of connect(), and nothing calls connect() again.
ConnectFail(h) ==
  /\ running /\ hstate[h] = "connecting"
  /\ hstate' = [hstate EXCEPT ![h] = "closed"]
  /\ running' = ClientErrorHandled(h)
  /\ UNCHANGED <<client, connectCalls, main, server, keepalive>>
  /\ UNCHANGED sockVars /\ UNCHANGED reqVars

\* The established session of handle h ends (peer closed, network gone): the
\* Client emits 'end'/'close', for which init() registers no listener.
SessionEnd(h) ==
  /\ running /\ hstate[h] = "ready"
  /\ hstate' = [hstate EXCEPT ![h] = "closed"]
  /\ UNCHANGED <<client, connectCalls>>
  /\ UNCHANGED procVars /\ UNCHANGED sockVars /\ UNCHANGED reqVars

\* The established session of handle h breaks with a Client 'error': logged by
\* the listener of init(), then the Client is closed.
SessionError(h) ==
  /\ running /\ hstate[h] = "ready"
  /\ hstate' = [hstate EXCEPT ![h] = "closed"]
  /\ running' = ClientErrorHandled(h)
  /\ UNCHANGED <<client, connectCalls, main, server, keepalive>>
  /\ UNCHANGED sockVars /\ UNCHANGED reqVars

\* ------------------------------------------------- createProxyConnection
\* CatchFirst that restarts only the first time in the life of the process and
\* treats the Session as permanently failed afterwards.
CatchFirstOnce(r, e) ==
  IF ShouldRestart(e) /\ client = 0
    THEN /\ client' = NewHandle(client)
         /\ hstate' = RestartHandles(hstate, client)
         /\ connectCalls' = connectCalls + 1
         /\ pc' = [pc EXCEPT ![r] = "awaitRestart"]
         /\ waitOn' = [waitOn EXCEPT ![r] = NewHandle(client)]
         /\ restarts' = [restarts EXCEPT ![r] = @ + 1]
         /\ UNCHANGED err
    ELSE /\ pc' = [pc EXCEPT ![r] = "failed"]
         /\ err' = [err EXCEPT ![r] = e]
         /\ UNCHANGED <<client, hstate, connectCalls, waitOn, restarts>>

\* CatchFirst that answers every error with a restart.
CatchFirstRestarts(r, e) ==
  /\ client < MaxHandles
  /\ client' = NewHandle(client)
  /\ hstate' = RestartHandles(hstate, client)
  /\ connectCalls' = connectCalls + 1
  /\ pc' = [pc EXCEPT ![r] = "awaitRestart"]
  /\ waitOn' = [waitOn EXCEPT ![r] = NewHandle(client)]
  /\ restarts' = [restarts EXCEPT ![r] = @ + 1]
  /\ UNCHANGED err

\* The catch block around the first forwardOut, entered with error e:
\* 'Not connected' -> `await ssh.restart()` (destroy, init, connect, then wait
\* for 'ready' of the new Client); anything else -> `throw e`.
CatchFirst(r, e) ==
  IF ShouldRestart(e)
    THEN /\ client < MaxHandles
         /\ client' = NewHandle(client)
         /\ hstate' = RestartHandles(hstate, client)
         /\ connectCalls' = connectCalls + 1
         /\ pc' = [pc EXCEPT ![r] = "awaitRestart"]
         /\ waitOn' = [waitOn EXCEPT ![r] = NewHandle(client)]
         /\ restarts' = [restarts EXCEPT ![r] = @ + 1]
         /\ UNCHANGED err
    ELSE /\ pc' = [pc EXCEPT ![r] = "failed"]
         /\ err' = [err EXCEPT ![r] = e]
         /\ UNCHANGED <<client, hstate, connectCalls, waitOn, restarts>>

\* RetryFailed with the second forwardOut caught like the first one: a failed
\* retry restarts again.
RetryFailedRestarts(r, e) ==
  /\ client < MaxHandles
  /\ client' = NewHandle(client)
  /\ hstate' = RestartHandles(hstate, client)
  /\ connectCalls' = connectCalls + 1
  /\ pc' = [pc EXCEPT ![r] = "awaitRestart"]
  /\ waitOn' = [waitOn EXCEPT ![r] = NewHandle(client)]
  /\ restarts' = [restarts EXCEPT ![r] = @ + 1]
  /\ UNCHANGED err

\* The second forwardOut is returned outside the try block: its rejection e is
\* the rejection of createProxyConnection.
RetryFailed(r, e) ==
  /\ pc' = [pc EXCEPT ![r] = "failed"]
  /\ err' = [err EXCEPT ![r] = e]
  /\ UNCHANGED <<client, hstate, connectCalls, waitOn, restarts>>

\* The proxy engine calls createProxyConnection(info) for connection r: the
\* first forwardOut goes to the current Client.  A synchronous 'Not connected'
\* reaches the catch block in the same turn of the event loop.
Request(r) ==
  /\ running /\ server = "listening" /\ sock[r] = "open" /\ pc[r] = "idle"
  /\ attempts' = [attempts EXCEPT ![r] = 1]
  /\ openOn' = [openOn EXCEPT ![r] = client]
  /\ firstOn' = [firstOn EXCEPT ![r] = hstate[client]]
  /\ \E o \in ForwardOutOutcomes(hstate[client]) :
       /\ firstRes' = [firstRes EXCEPT ![r] = o]
       /\ IF o = "Pending"
            THEN /\ pc' = [pc EXCEPT ![r] = "open1"]
                 /\ UNCHANGED <<client, hstate, connectCalls, waitOn, restarts, err>>
            ELSE CatchFirst(r, o)
  /\ UNCHANGED procVars /\ UNCHANGED sockVars

\* The transport answers a pending channel-open of request r with a channel;
\* only a ready Client opens channels.
OpenSucceed(r) ==
  /\ running /\ pc[r] \in {"open1", "open2"}
  /\ hstate[openOn[r]] = "ready"
  /\ pc' = [pc EXCEPT ![r] = "ok"]
  /\ firstRes' = [firstRes EXCEPT ![r] = IF pc[r] = "open1" THEN "Channel" ELSE @]
  /\ UNCHANGED <<openOn, waitOn, attempts, restarts, firstOn, err>>
  /\ UNCHANGED sessionVars /\ UNCHANGED procVars /\ UNCHANGED sockVars

\* The transport answers a pending channel-open of request r with an error
\* other than 'Not connected' (destination unreachable, open rejected, session
\* closed under the request).
OpenFail(r) ==
  /\ running /\ pc[r] \in {"open1", "open2"}
  /\ IF pc[r] = "open1"
       THEN /\ firstRes' = [firstRes EXCEPT ![r] = "Other"]
            /\ CatchFirst(r, "Other")
       ELSE /\ UNCHANGED firstRes
            /\ RetryFailed(r, "Other")
  /\ UNCHANGED <<openOn, attempts, firstOn>>
  /\ UNCHANGED procVars /\ UNCHANGED sockVars

\* ------------------------------------------------------- client sockets
\* server 'connection': a client socket is accepted; with a non-zero keepalive
\* its idle timer starts.
Accept(c) ==
  /\ running /\ server = "listening" /\ sock[c] = "none"
  /\ sock' = [sock EXCEPT ![c] = "open"]
  /\ idle' = [idle EXCEPT ![c] = 0]
  /\ UNCHANGED sessionVars /\ UNCHANGED procVars /\ UNCHANGED reqVars

\* Bytes move on socket c: the socket's idle timer starts over.
Traffic(c) ==
  /\ running /\ sock[c] = "open"
  /\ idle' = [idle EXCEPT ![c] = 0]
  /\ UNCHANGED sock
  /\ UNCHANGED sessionVars /\ UNCHANGED procVars /\ UNCHANGED reqVars

\* One time unit passes on socket c without traffic.  Idle time is measured by
\* the socket's timer, so only where one is registered; the timer fires when
\* the interval is reached, so idle time does not pass beyond it.
Tick(c) ==
  /\ running /\ sock[c] = "open"
  /\ TimeoutRegistered(keepalive)
  /\ idle[c] < keepalive
  /\ idle' = [idle EXCEPT ![c] = @ + 1]
  /\ UNCHANGED sock
  /\ UNCHANGED sessionVars /\ UNCHANGED procVars /\ UNCHANGED reqVars

\* TimeoutCallback that destroys every open client socket, not only socket c.
TimeoutCallbackAll(c) == [d \in Conns |-> IF sock[d] = "open" THEN "timedout" ELSE sock[d]]

\* The 'timeout' callback registered by socket.setTimeout: () => socket.destroy()
TimeoutCallback(c) == [sock EXCEPT ![c] = "timedout"]

\* Socket c has seen no traffic for argv.keepalive time units: 'timeout' fires.
IdleTimeout(c) ==
  /\ running /\ sock[c] = "open"
  /\ TimeoutRegistered(keepalive)
  /\ idle[c] = keepalive
  /\ sock' = TimeoutCallback(c)
  /\ idle' = [idle EXCEPT ![c] = 0]
  /\ UNCHANGED sessionVars /\ UNCHANGED procVars /\ UNCHANGED reqVars

\* The client (or the proxy engine, after its request ended) closes socket c.
ClientClose(c) ==
  /\ running /\ sock[c] = "open"
  /\ sock' = [sock EXCEPT ![c] = "closed"]
  /\ idle' = [idle EXCEPT ![c] = 0]
  /\ UNCHANGED sessionVars /\ UNCHANGED procVars /\ UNCHANGED reqVars

\* ------------------------------------------------------- specifications
Next ==
  \/ Startup
  \/ ListenOk
  \/ ListenFail
  \/ ProcessExit
  \/ \E h \in Handles : ConnectReady(h)
  \/ \E h \in Handles : ConnectFail(h)
  \/ \E h \in Handles : SessionEnd(h)
  \/ \E h \in Handles : SessionError(h)
  \/ \E r \in Conns : Request(r)
  \/ \E r \in Conns : OpenSucceed(r)
  \/ \E r \in Conns : OpenFail(r)
  \/ \E c \in Conns : Accept(c)
  \/ \E c \in Conns : Traffic(c)
  \/ \E c \in Conns : Tick(c)
  \/ \E c \in Conns : IdleTimeout(c)
  \/ \E c \in Conns : ClientClose(c)

Spec == Init /\ [][Next]_vars

\* The event loop runs every callback that is ready, and the transport and the
\* operating system answer every connect, channel-open and listen they were
\* given (with success or with failure); a due timer fires.  Arrivals of
\* clients, requests, traffic and session ends are not forced.
FairSpec ==
  /\ Spec
  /\ WF_vars(Startup)
  /\ WF_vars(ListenOk \/ ListenFail)
  /\ \A h \in Handles : WF_vars(ConnectReady(h) \/ ConnectFail(h))
  /\ \A r \in Conns : WF_vars(OpenSucceed(r) \/ OpenFail(r))
  /\ \A c \in Conns : WF_vars(IdleTimeout(c))

\* ------------------------------------------------------------ properties
InFlight(r) == pc[r] \in {"open1", "awaitRestart", "open2"}
Settled(r) == pc[r] \in {"ok", "failed"}

\* C1: every call of createProxyConnection eventually settles: once a request
\* is in flight it eventually returns a channel or fails with an error.
C1_EveryRequestSettles == \A r \in Conns : InFlight(r) ~> Settled(r)

\* C2: retry-once policy.  Per request there are at most two forwardOut
\* attempts and at most one restart; the restart happens exactly when the first
\* attempt answered NotConnected; a request that has passed its restart has made
\* exactly one more attempt; and a failed retry is the request's failure.
C2_RetryOnce ==
  \A r \in Conns :
    /\ attempts[r] <= 2
    /\ restarts[r] <= 1
    /\ (restarts[r] = 1) <=> (firstRes[r] = "NotConnected")
    /\ (attempts[r] = 2) <=> (restarts[r] = 1 /\ pc[r] # "awaitRestart")
    /\ (pc[r] = "open2") => (attempts[r] = 2)
    /\ (pc[r] = "failed" /\ restarts[r] = 1) => (err[r] # "none")

\* A request whose first attempt was NotConnected restarted once, retried once,
\* and the failure of the retry was handed to its caller.
C2_Witness ==
  \E r \in Conns :
    /\ pc[r] = "failed" /\ firstRes[r] = "NotConnected"
    /\ attempts[r] = 2 /\ restarts[r] = 1 /\ err[r] = "Other"

\* C3: restart() is serialized: while a request is waiting for the Client its
\* restart() is connecting, no other destroy/init/connect cycle is started
\* (the Client in use is not replaced).
C3_RestartSerialized ==
  [][(\E r \in Conns : pc[r] = "awaitRestart" /\ hstate[waitOn[r]] = "connecting")
       => client' = client]_vars

\* C4: a session-ended notification while the server is listening leaves the
\* Session disconnected and starts exactly one connect() for that notification.
C4_SessionEndReconnects ==
  [][\A h \in Handles :
       (server = "listening" /\ client' = client
          /\ hstate[h] = "ready" /\ hstate'[h] = "closed")
       => connectCalls' = connectCalls + 1]_vars

\* C5: when the connect() performed by a request's restart() fails, the
\* request's restart() settles and the request fails with an error, the Session
\* being disconnected.
C5_FailedRestartSurfaces ==
  \A r \in Conns :
    (pc[r] = "awaitRestart" /\ waitOn[r] = client /\ hstate[client] = "closed")
      ~> (pc[r] = "failed" /\ err[r] # "none")

\* C6: a first channel-open that fails with an error other than NotConnected
\* is thrown unchanged to the caller of that request only: no restart, the
\* handle and its state unchanged, the server, the sockets and every other
\* request unaffected.
C6_OtherFailureIsolated ==
  [][\A r \in Conns :
       (firstRes[r] # "Other" /\ firstRes'[r] = "Other")
       => /\ pc'[r] = "failed" /\ err'[r] = "Other"
          /\ restarts'[r] = restarts[r] /\ attempts'[r] = attempts[r]
          /\ client' = client /\ hstate' = hstate /\ connectCalls' = connectCalls
          /\ server' = server /\ running' = running /\ sock' = sock
          /\ \A q \in Conns \ {r} :
               /\ pc'[q] = pc[q] /\ err'[q] = err[q]
               /\ openOn'[q] = openOn[q] /\ waitOn'[q] = waitOn[q]
               /\ attempts'[q] = attempts[q] /\ restarts'[q] = restarts[q]]_vars

\* A request failed with a non-NotConnected error while another request was in
\* flight on the ready session.
C6_Witness ==
  \E r, q \in Conns :
    /\ r # q /\ pc[r] = "failed" /\ firstRes[r] = "Other" /\ err[r] = "Other"
    /\ restarts[r] = 0 /\ InFlight(q)
    /\ server = "listening" /\ hstate[client] = "ready"

\* C7: a request whose first forwardOut goes to a ready Client never restarts
\* and never makes a second attempt, and when it returns a channel it is the
\* one of the first attempt; every restart that ever happened is the restart
\* of a request whose first forwardOut answered NotConnected.
C7_ReadyNoRestart ==
  /\ \A r \in Conns :
       /\ (firstOn[r] = "ready") =>
            (restarts[r] = 0 /\ attempts[r] <= 1 /\ (pc[r] = "ok" => firstRes[r] = "Channel"))
       /\ (restarts[r] > 0) => (firstRes[r] = "NotConnected" /\ firstOn[r] # "ready")
  /\ client = Cardinality({r \in Conns : restarts[r] > 0})

\* A request made on the ready session got its channel from the first attempt.
C7_Witness ==
  \E r \in Conns :
    /\ pc[r] = "ok" /\ firstOn[r] = "ready" /\ firstRes[r] = "Channel"
    /\ attempts[r] = 1 /\ restarts[r] = 0

\* C8: idle timeout.  A socket is closed by the timeout only with a non-zero
\* keepalive and only after a full interval without traffic; with keepalive
\* zero no socket is ever closed by it; and an open socket that has been idle
\* for the full interval is force-closed (unless traffic arrives or the client
\* closes at that very moment).
C8_IdleTimeout ==
  /\ [](\A c \in Conns : sock[c] = "timedout" => keepalive # 0)
  /\ [][\A c \in Conns :
         (sock[c] = "open" /\ sock'[c] = "timedout")
         => (keepalive # 0 /\ idle[c] = keepalive)]_vars
  /\ [][\A c \in Conns :
         (sock[c] = "open" /\ idle[c] < keepalive) => sock'[c] # "timedout"]_vars
  /\ \A c \in Conns :
       (sock[c] = "open" /\ keepalive # 0 /\ idle[c] = keepalive)
         ~> (sock[c] # "open" \/ idle[c] < keepalive)

\* With a non-zero keepalive, a socket was closed by its idle timeout while
\* another one, which had traffic, is still open.
C8_Witness ==
  \E c, d \in Conns :
    /\ keepalive # 0 /\ sock[c] = "timedout"
    /\ sock[d] = "open" /\ idle[d] < keepalive

\* C9: a failure to bind/listen ends the process: it never keeps running with
\* a server that failed to listen.
C9_ListenFailureFatal == ~(server = "failed" /\ running)


\* C10: a connect failure or session error while the server is listening is
\* only logged: the server stays listening and accepting, the process keeps
\* running, no request is touched by the event, and no request gets a channel
\* while the Session is not ready.
C10_SessionFailureOnlyLogged ==
  /\ [][\A h \in Handles :
         (server = "listening" /\ client' = client
            /\ hstate[h] \in {"connecting", "ready"} /\ hstate'[h] = "closed")
         => (server' = "listening" /\ running' /\ pc' = pc /\ err' = err /\ sock' = sock)]_vars
  /\ [](server = "listening" =>
         (running /\ \A c \in Conns : sock[c] = "none" => ENABLED Accept(c)))
  /\ [][\A r \in Conns :
         (pc[r] # "ok" /\ pc'[r] = "ok") => (hstate[client] = "ready" /\ openOn[r] = client)]_vars

\* The connect() of a request's restart failed while the server was listening;
\* the server still listens and the process runs.
C10_Witness ==
  \E r \in Conns :
    /\ server = "listening" /\ running
    /\ pc[r] = "awaitRestart" /\ waitOn[r] = client /\ hstate[client] = "closed"

\* C11: at most one handle is connecting or ready, and it is the current one:
\* every handle made before the current one is closed, every later one is not
\* yet made; so no two handles are ever connecting at the same time.
Live(h) == hstate[h] \in {"connecting", "ready"}

C11_OneLiveHandle ==
  /\ Cardinality({h \in Handles : Live(h)}) <= 1
  /\ \A h \in Handles :
       /\ Live(h) => h = client
       /\ (h < client) => hstate[h] = "closed"
       /\ (h > client) => hstate[h] = "unused"

\* Two restart() calls interleaved: a request still waits for handle 1, which a
\* second restart() destroyed while making handle 2, the only live one.
C11_Witness ==
  \E r \in Conns :
    /\ client = 2 /\ Live(2) /\ hstate[1] = "closed"
    /\ pc[r] = "awaitRestart" /\ waitOn[r] = 1 /\ firstOn[r] = "closed"
    /\ \E q \in Conns : restarts[q] = 1 /\ firstOn[q] = "connecting"

\* The Session state a handle state stands for.
SessionState(s) ==
  IF s = "connecting" THEN "Connecting"
  ELSE IF s = "ready" THEN "Ready" ELSE "Disconnected"

\* C12: the Session starts Disconnected and every handle changes state only
\* along the table: Disconnected -> Connecting by a connect(), Connecting ->
\* Ready, Connecting -> Disconnected by a failure of the connect (never by a
\* restart() replacing the handle), Ready -> Disconnected.
C12_TableTransitions ==
  /\ SessionState(hstate[client]) = "Disconnected"
  /\ [][\A h \in Handles :
         LET a == SessionState(hstate[h])
             b == SessionState(hstate'[h])
         IN \/ a = b
            \/ a = "Disconnected" /\ b = "Connecting" /\ hstate[h] # "closed"
                 /\ connectCalls' = connectCalls + 1
            \/ a = "Connecting" /\ b = "Ready"
            \/ a = "Connecting" /\ b = "Disconnected" /\ client' = client
            \/ a = "Ready" /\ b = "Disconnected"]_vars

\* C13: every restart() closes the handle that was current, whatever its state,
\* makes a handle that was never used before the current one and issues one
\* connect() on it; and a request suspended in restart() is resumed only in a
\* step that leaves the handle its restart() connected ready and current.
C13_RestartResumesWhenReady ==
  /\ [][client' # client =>
          /\ hstate'[client] = "closed"
          /\ client' = NewHandle(client) /\ hstate[client'] = "unused"
          /\ hstate'[client'] = "connecting"
          /\ connectCalls' = connectCalls + 1
          /\ \E r \in Conns : pc'[r] = "awaitRestart" /\ waitOn'[r] = client'
                               /\ restarts'[r] = restarts[r] + 1]_vars
  /\ [][\A r \in Conns :
         (pc[r] = "awaitRestart" /\ pc'[r] # "awaitRestart")
         => (hstate'[waitOn[r]] = "ready" /\ waitOn[r] = client')]_vars

\* A restart() that was called while the current handle was still connecting
\* has resumed its caller, on the ready handle; an earlier restart() was called
\* on a closed handle.
C13_Witness ==
  \E r, q \in Conns :
    /\ restarts[r] = 1 /\ firstOn[r] = "connecting" /\ pc[r] = "open2"
    /\ hstate[waitOn[r]] = "ready"
    /\ restarts[q] = 1 /\ firstOn[q] = "closed"

\* C14: the step in which the idle timeout closes socket c changes nothing but
\* that socket: the Session (current handle, handle states, connect() calls),
\* every request, every other socket and its idle timer, the server and the
\* process are as before.
C14_TimeoutTouchesOneSocket ==
  [][\A c \in Conns :
       (sock[c] = "open" /\ sock'[c] = "timedout")
       => /\ UNCHANGED sessionVars
          /\ UNCHANGED reqVars
          /\ UNCHANGED procVars
          /\ \A d \in Conns \ {c} : sock'[d] = sock[d] /\ idle'[d] = idle[d]]_vars

\* A socket was closed by its idle timeout while its own request was suspended
\* in restart() and another client socket was open.
C14_Witness ==
  \E c, d \in Conns :
    /\ sock[c] = "timedout" /\ pc[c] = "awaitRestart" /\ hstate[client] = "connecting"
    /\ sock[d] = "open"

\* C15: the server is asked to listen only in the step in which the first
\* Client, connected at startup, becomes ready: before that no socket is
\* accepted and no request issued, and once the initial connect has failed the
\* startup flow stays suspended and the server never listens.
C15_ListenAfterReady ==
  /\ [](main # "done" =>
         (server = "idle" /\ \A c \in Conns : sock[c] = "none" /\ pc[c] = "idle" /\ attempts[c] = 0))
  /\ [](server # "idle" => hstate[0] \in {"ready", "closed"})
  /\ [][(server = "idle" /\ server' # "idle")
         => (client = 0 /\ hstate[0] = "connecting" /\ hstate'[0] = "ready")]_vars
  /\ [][(main = "awaitReady" /\ hstate[0] = "closed")
         => (main' = "awaitReady" /\ server' = "idle")]_vars

\* The server listens after the initial connect became ready, a client was
\* accepted and its request issued.
C15_Witness ==
  \E c \in Conns :
    /\ server = "listening" /\ main = "done"
    /\ sock[c] = "open" /\ attempts[c] = 1

\* C16: every forwardOut is issued against the handle that is current when the
\* call is made, never against an earlier, destroyed one; the retry after
\* restart() goes to the handle that restart() connected, which is then ready
\* and still the current one.
C16_OpenOnCurrentHandle ==
  [][\A r \in Conns :
       (attempts'[r] = attempts[r] + 1)
       => /\ openOn'[r] = client
          /\ hstate[client] # "unused"
          /\ (attempts[r] = 1) =>
               (client' = client /\ openOn'[r] = waitOn[r] /\ hstate'[client] = "ready")]_vars

\* A request retried on handle 2, made by its own restart(), after that
\* restart() had replaced handle 1, for which another request still waits.
C16_Witness ==
  \E r, q \in Conns :
    /\ pc[r] = "open2" /\ attempts[r] = 2 /\ openOn[r] = 2 /\ client = 2
    /\ pc[q] = "awaitRestart" /\ waitOn[q] = 1 /\ hstate[1] = "closed"

\* C17: no permanently failed Session.  Whatever earlier requests did, a
\* request that has not been issued yet can be issued on the listening server
\* (as long as the model still has a handle to give to a restart), and every
\* request whose first forwardOut answers NotConnected makes its own restart():
\* a fresh handle, connecting, one restart counted for that request only.
C17_NoPermanentFailure ==
  /\ [](\A r \in Conns :
         (running /\ server = "listening" /\ sock[r] = "open" /\ pc[r] = "idle"
            /\ client < MaxHandles)
         => ENABLED Request(r))
  /\ [][\A r \in Conns :
         (firstRes[r] = "none" /\ firstRes'[r] = "NotConnected")
         => /\ client' = NewHandle(client)
            /\ hstate[client'] = "unused" /\ hstate'[client'] = "connecting"
            /\ pc'[r] = "awaitRestart" /\ waitOn'[r] = client'
            /\ restarts'[r] = 1
            /\ \A q \in Conns \ {r} : restarts'[q] = restarts[q]]_vars

\* A request failed after its one restart and retry; a later request found the
\* session down again and made a restart of its own, on a newer handle.
C17_Witness ==
  \E r, q \in Conns :
    /\ pc[q] = "failed" /\ restarts[q] = 1 /\ attempts[q] = 2
    /\ restarts[r] = 1 /\ waitOn[r] > waitOn[q] /\ waitOn[r] = client
    /\ firstOn[r] = "closed"

====
